---- MODULE Spec2Model ----
(***************************************************************************)
(* Model of ranks.py: the average rank of a five-player VALORANT team.     *)
(*                                                                         *)
(* Text is a sequence of characters.  A character is a one-element name:   *)
(* ASCII characters stand for themselves ("a", "A", "1", " ", "-", "\n"),  *)
(* a Cyrillic letter is written "ru_<translit>" in lower case and          *)
(* "RU_<TRANSLIT>" in upper case, so the Cyrillic "ru_a" and the Latin "a" *)
(* are different characters, as in the source.  Display labels (RU_NAME)   *)
(* are strings, transliterated the same way.                               *)
(*                                                                         *)
(* A float is the integer number of its tenths.  Every float the program   *)
(* forms is k/5 or k/5 + 0.5 with 5 <= k <= 125, which lies either exactly *)
(* on an integer or at least 0.1 away from one, so truncation of the       *)
(* tenths agrees with int() of the double.                                 *)
(***************************************************************************)
EXTENDS Integers, Sequences, FiniteSets, TLC

(***************************************************************************)
(* Module constants, ranks.py lines 44-71.                                 *)
(***************************************************************************)
ORDER == <<"iron", "bronze", "silver", "gold", "platinum", "diamond", "ascendant", "immortal">>

RU_NAME == [
    iron |-> "Zhelezo",
    bronze |-> "Bronza",
    silver |-> "Serebro",
    gold |-> "Zoloto",
    platinum |-> "Platina",
    diamond |-> "Almaz",
    ascendant |-> "Ascendant",
    immortal |-> "Immortal",
    radiant |-> "Radiant"]

MAX_WITHOUT_RADIANT == 24

RADIANT_VALUE == 25

DEFAULT_INCLUDE_RADIANT == TRUE

\* The keys of ALIASES in the order the dictionary literal lists them.
ALIAS_KEYS == ORDER \o <<"radiant">>

ALIASES == [
    iron |-> {<<"ru_zh", "ru_e", "ru_l", "ru_e", "ru_z", "ru_o">>,
        <<"i", "r", "o", "n">>,
        <<"ru_zh">>},
    bronze |-> {<<"ru_b", "ru_r", "ru_o", "ru_n", "ru_z", "ru_a">>,
        <<"b", "r", "o", "n", "z", "e">>,
        <<"ru_b">>},
    silver |-> {<<"ru_s", "ru_e", "ru_r", "ru_e", "ru_b", "ru_r", "ru_o">>,
        <<"s", "i", "l", "v", "e", "r">>,
        <<"ru_s">>},
    gold |-> {<<"ru_z", "ru_o", "ru_l", "ru_o", "ru_t", "ru_o">>,
        <<"ru_g", "ru_o", "ru_l", "ru_d", "ru_a">>,
        <<"g", "o", "l", "d">>,
        <<"ru_g">>},
    platinum |-> {<<"ru_p", "ru_l", "ru_a", "ru_t", "ru_i", "ru_n", "ru_a">>,
        <<"p", "l", "a", "t", "i", "n", "u", "m">>,
        <<"ru_p">>,
        <<"ru_p", "ru_l", "ru_a", "ru_t">>},
    diamond |-> {<<"ru_a", "ru_l", "ru_m", "ru_a", "ru_z">>,
        <<"ru_d", "ru_a", "ru_j", "ru_m", "ru_o", "ru_n", "ru_d">>,
        <<"d", "i", "a", "m", "o", "n", "d">>,
        <<"ru_d">>},
    ascendant |-> {<<"ru_a", "ru_s", "ru_c", "ru_e", "ru_n", "ru_d", "ru_a", "ru_n", "ru_t">>,
        <<"ru_a", "ru_s", "ru_k", "ru_e", "ru_d", "ru_a", "ru_n", "ru_t">>,
        <<"ru_a", "ru_s", "ru_c", "ru_e", "ru_d", "ru_a", "ru_n", "ru_t">>,
        <<"a", "s", "c", "e", "n", "d", "a", "n", "t">>,
        <<"ru_a">>,
        <<"ru_a", "ru_s", "ru_k">>,
        <<"ru_a", "ru_s", "ru_c">>,
        <<"a", "s", "c">>},
    immortal |-> {<<"ru_i", "ru_m", "ru_m", "ru_o", "ru_r", "ru_t", "ru_a", "ru_l">>,
        <<"i", "m", "m", "o", "r", "t", "a", "l">>,
        <<"ru_i", "ru_m", "ru_m", "ru_o">>,
        <<"ru_i", "ru_m">>,
        <<"ru_i">>},
    radiant |-> {<<"ru_r", "ru_a", "ru_d", "ru_i", "ru_a", "ru_n", "ru_t">>,
        <<"r", "a", "d", "i", "a", "n", "t">>,
        <<"ru_r", "ru_a", "ru_d">>,
        <<"r">>}]

\* dict.get of a missing key, and an Optional[int] without a value.
None == <<>>

\* ALIAS_TO_KEY.get(core): the loop of lines 74-77 assigns the keys in
\* order, so an alias listed under two keys would end up with the later one.
ALIAS_TO_KEY(core) ==
    LET hits == {i \in 1..Len(ALIAS_KEYS) : core \in ALIASES[ALIAS_KEYS[i]]}
    IN  IF hits = {} THEN None
        ELSE <<ALIAS_KEYS[CHOOSE i \in hits : \A j \in hits : j <= i]>>

(***************************************************************************)
(* Characters: str.lower(), str.strip() and the classes of the two regular *)
(* expressions, restricted to the characters of the model.                 *)
(***************************************************************************)
CasePairs == {
    <<"A", "a">>, <<"B", "b">>, <<"C", "c">>, <<"D", "d">>,
    <<"E", "e">>, <<"F", "f">>, <<"G", "g">>, <<"H", "h">>,
    <<"I", "i">>, <<"J", "j">>, <<"K", "k">>, <<"L", "l">>,
    <<"M", "m">>, <<"N", "n">>, <<"O", "o">>, <<"P", "p">>,
    <<"Q", "q">>, <<"R", "r">>, <<"S", "s">>, <<"T", "t">>,
    <<"U", "u">>, <<"V", "v">>, <<"W", "w">>, <<"X", "x">>,
    <<"Y", "y">>, <<"Z", "z">>, <<"RU_A", "ru_a">>, <<"RU_B", "ru_b">>,
    <<"RU_G", "ru_g">>, <<"RU_D", "ru_d">>, <<"RU_E", "ru_e">>, <<"RU_ZH", "ru_zh">>,
    <<"RU_Z", "ru_z">>, <<"RU_I", "ru_i">>, <<"RU_J", "ru_j">>, <<"RU_K", "ru_k">>,
    <<"RU_L", "ru_l">>, <<"RU_M", "ru_m">>, <<"RU_N", "ru_n">>, <<"RU_O", "ru_o">>,
    <<"RU_P", "ru_p">>, <<"RU_R", "ru_r">>, <<"RU_S", "ru_s">>, <<"RU_T", "ru_t">>,
    <<"RU_C", "ru_c">>, <<"RU_YO", "ru_yo">>}

\* The characters str.strip() removes from both ends (Unicode whitespace).
Whitespace == {" ", "\t", "\n"}

\* The character class of re.sub(r"[ \t\-\._]+", "", s).
SeparatorClass == {" ", "\t", "-", ".", "_"}

\* Mutant: the class r"[1234]".
TierClassWide == {"1", "2", "3", "4"}

\* The character class of re.search(r"([123])$", token).
TierClass == {"1", "2", "3"}

\* int(m.group(1)).
DigitValue(c) ==
    CASE c = "0" -> 0 [] c = "1" -> 1 [] c = "2" -> 2 [] c = "3" -> 3 [] c = "4" -> 4
      [] c = "5" -> 5 [] c = "6" -> 6 [] c = "7" -> 7 [] c = "8" -> 8 [] c = "9" -> 9

UpperLetters == {p[1] : p \in CasePairs}

LowerLetters == {p[2] : p \in CasePairs}

LowerOf == [c \in UpperLetters |-> (CHOOSE p \in CasePairs : p[1] = c)[2]]

UpperOf == [c \in LowerLetters |-> (CHOOSE p \in CasePairs : p[2] = c)[1]]

\* str.lower() of one character.
LowerChar(c) == IF c \in UpperLetters THEN LowerOf[c] ELSE c

\* str.upper() of one character.
UpperChar(c) == IF c \in LowerLetters THEN UpperOf[c] ELSE c

\* Mutant: the text is not lower-cased.
LowerOmitted(s) == s

Lower(s) == [i \in 1..Len(s) |-> LowerChar(s[i])]

RECURSIVE LStrip(_)
LStrip(s) == IF s # <<>> /\ Head(s) \in Whitespace THEN LStrip(Tail(s)) ELSE s

RECURSIVE RStrip(_)
RStrip(s) ==
    IF s # <<>> /\ s[Len(s)] \in Whitespace THEN RStrip(SubSeq(s, 1, Len(s) - 1)) ELSE s

Strip(s) == RStrip(LStrip(s))

\* s.replace("ru_yo", "ru_e")
ReplaceYo(s) == [i \in 1..Len(s) |-> IF s[i] = "ru_yo" THEN "ru_e" ELSE s[i]]

\* Mutant: the class lacks the tab and the underscore.
InSeparatorClassShort(c) == c \in {" ", "-", "."}

InSeparatorClass(c) == c \in SeparatorClass

RemoveSeparators(s) == SelectSeq(s, LAMBDA c : ~InSeparatorClass(c))

clean_token(s) == RemoveSeparators(ReplaceYo(Lower(Strip(s))))

(***************************************************************************)
(* _parse_rank_token, lines 100-139.  The result is a record: err is       *)
(* "none" on success and the kind of ValueError otherwise; raw and family  *)
(* are what the error message quotes.                                      *)
(***************************************************************************)
\* re.search(r"([123])$", token): "$" matches at the end of the string and
\* also just before a newline that ends the string.  The value is the
\* matched character in a one-element sequence, or None.
TierMatch(token) ==
    LET n == Len(token)
    IN  IF n >= 1 /\ token[n] \in TierClass THEN <<token[n]>>
        ELSE IF n >= 2 /\ token[n] = "\n" /\ token[n - 1] \in TierClass THEN <<token[n - 1]>>
        ELSE None

\* return key, tier, ru_base
Parsed(key, tier, ru_base) ==
    [err |-> "none", key |-> key, tier |-> tier, ru_base |-> ru_base, raw |-> <<>>, family |-> ""]

\* raise ValueError(...): kind names the message, raw is the original text
\* and family the display name the message quotes.
Failure(kind, raw, family) ==
    [err |-> kind, key |-> "", tier |-> None, ru_base |-> "", raw |-> raw, family |-> family]

\* Mutant: the top family is asked for a sub-tier too.
NeedsTierAlways(key) == TRUE

\* Line 128: every family but the top one carries a sub-tier.
NeedsTier(key) == key # "radiant"

parse_rank_token(raw) ==
    LET token == clean_token(raw)
        m == TierMatch(token)
        tier == IF m # None THEN <<DigitValue(m[1])>> ELSE None
        core == IF m # None THEN SubSeq(token, 1, Len(token) - 1) ELSE token
        key == ALIAS_TO_KEY(core)
    IN  IF key = None THEN Failure("UnrecognizedRank", raw, "")
        ELSE LET ru_base == RU_NAME[key[1]]
             IN  IF NeedsTier(key[1])
                 THEN IF tier = None THEN Failure("MissingSubTier", <<>>, ru_base)
                      ELSE IF tier[1] \notin {1, 2, 3} THEN Failure("InvalidSubTier", <<>>, ru_base)
                      ELSE Parsed(key[1], tier, ru_base)
                 ELSE Parsed(key[1], None, ru_base)

(***************************************************************************)
(* The scale mapping, lines 142-170.                                       *)
(***************************************************************************)
\* Mutant: the index counted from one.
OrderIndexFromOne(key) == CHOOSE i \in 1..Len(ORDER) : ORDER[i] = key

\* ORDER.index(key), zero-based.
OrderIndex(key) == (CHOOSE i \in 1..Len(ORDER) : ORDER[i] = key) - 1

\* Mutant: the top family is worth RADIANT_VALUE whatever the flag.
rank_to_number_no_flag(key, tier, include_radiant) ==
    IF key = "radiant" THEN RADIANT_VALUE ELSE OrderIndex(key) * 3 + tier[1]

rank_to_number(key, tier, include_radiant) ==
    IF key = "radiant"
    THEN IF include_radiant THEN RADIANT_VALUE ELSE MAX_WITHOUT_RADIANT
    ELSE OrderIndex(key) * 3 + tier[1]

\* The f-string "{name} {tier}".
Label(name, tier) == name \o " " \o ToString(tier)

\* Lines 152-156 of _number_to_ru: the clamp to [1, max_value].
Clamp(num, include_radiant) ==
    LET max_value == IF include_radiant THEN RADIANT_VALUE ELSE MAX_WITHOUT_RADIANT
        low == IF num < 1 THEN 1 ELSE num
    IN  IF low > max_value THEN max_value ELSE low

\* Mutant: the family and the sub-tier taken from n instead of n - 1.
number_to_ru_shifted(num, include_radiant) ==
    LET n == Clamp(num, include_radiant)
    IN  IF include_radiant /\ n = RADIANT_VALUE THEN RU_NAME["radiant"]
        ELSE LET i == n \div 3
                 tier == (n % 3) + 1
             IN  Label(RU_NAME[ORDER[IF i + 1 > Len(ORDER) THEN Len(ORDER) ELSE i + 1]], tier)

number_to_ru(num, include_radiant) ==
    LET n == Clamp(num, include_radiant)
    IN  IF include_radiant /\ n = RADIANT_VALUE THEN RU_NAME["radiant"]
        ELSE LET i == (n - 1) \div 3
                 tier == ((n - 1) % 3) + 1
             IN  Label(RU_NAME[ORDER[i + 1]], tier)

\* int() of a float given in tenths: truncation toward zero.
IntOfTenths(t) == IF t >= 0 THEN t \div 10 ELSE -((-t) \div 10)

\* Mutant: int(x), the half is not added.
round_truncate(x) == IntOfTenths(x)

\* int(x + 0.5), x in tenths.
round_half_up(x) == IntOfTenths(x + 5)

(***************************************************************************)
(* State.                                                                  *)
(*   compute_average_details / average_rank: the argument ranks, the flag  *)
(*   include_radiant, the entry point, the position pc, the loop index i   *)
(*   (the token the for loop is at), the locals values, norm_ru,           *)
(*   avg_value, final_num and final_ru, the raised error err and the       *)
(*   returned value ret (<<>> while nothing has been returned).            *)
(*   _clean_token / _parse_rank_token called on one text: raw, the locals  *)
(*   token and result; origin and edits record how raw was written.        *)
(*   The scale mapper called on one rank: rank, num, label.                *)
(***************************************************************************)
VARIABLES ranks, include_radiant, entry, pc, i, values, norm_ru, avg_value,
          final_num, final_ru, err, ret,
          raw, origin, edits, token, result,
          rank, num, label

aggVars == <<ranks, entry, i, values, norm_ru, avg_value, final_num, final_ru, err, ret>>

tokVars == <<raw, origin, edits, token, result>>

mapVars == <<rank, num, label>>

vars == <<aggVars, tokVars, mapVars, include_radiant, pc>>

\* Bounds of the inputs.
MaxRanks == 5

MaxLen == 4

MaxEdits == 2

Slack == 2

NoError == [kind |-> "none", raw |-> <<>>, family |-> ""]

\* The ValueError a failed parse raises.
ErrorOf(r) == [kind |-> r.err, raw |-> r.raw, family |-> r.family]

NoResult == Failure("none", <<>>, "")

NoRank == [key |-> "", tier |-> None]

AggIdle ==
    /\ ranks = <<>> /\ entry = "" /\ i = 0 /\ values = <<>> /\ norm_ru = <<>>
    /\ avg_value = 0 /\ final_num = 0 /\ final_ru = "" /\ err = NoError /\ ret = <<>>

TokIdle == raw = <<>> /\ origin = <<>> /\ edits = 0 /\ token = <<>> /\ result = NoResult

MapIdle == rank = NoRank /\ num = 0 /\ label = ""

(***************************************************************************)
(* compute_average_details and average_rank, lines 173-213.                *)
(***************************************************************************)
\* The example inputs of the module docstring, lines 26-34.
Doctests == <<
    <<<<"RU_A", "ru_l", "ru_m", "ru_a", "ru_z", " ", "1">>,
      <<"RU_A", "ru_s", "ru_c", "ru_e", "ru_n", "ru_d", "ru_a", "ru_n", "ru_t", " ", "1">>,
      <<"ru_b", "ru_r", "ru_o", "ru_n", "ru_z", "ru_a", " ", "1">>,
      <<"ru_s", "ru_e", "ru_r", "ru_e", "ru_b", "ru_r", "ru_o", "1">>,
      <<"ru_z", "ru_o", "ru_l", "ru_o", "ru_t", "ru_o", " ", "1">>>>,
    <<<<"ru_d", "1">>,
      <<"ru_a", "ru_s", "ru_k", "1">>,
      <<"ru_b", "1">>,
      <<"ru_s", "1">>,
      <<"ru_g", "1">>>>,
    <<<<"d", "i", "a", "m", "o", "n", "d", " ", "2">>,
      <<"a", "s", "c", "e", "n", "d", "a", "n", "t", "3">>,
      <<"ru_i", "ru_m", "ru_m", "ru_o", "1">>,
      <<"g", "o", "l", "d", "3">>,
      <<"p", "l", "a", "t", "i", "n", "u", "m", "1">>>>,
    <<<<"R", "a", "d", "i", "a", "n", "t">>,
      <<"I", "m", "m", "o", "r", "t", "a", "l", " ", "3">>,
      <<"I", "m", "m", "o", "r", "t", "a", "l", " ", "3">>,
      <<"A", "s", "c", "e", "n", "d", "a", "n", "t", " ", "3">>,
      <<"D", "i", "a", "m", "o", "n", "d", " ", "3">>>>>>

\* The texts a caller passes one by one: both ends of the scale, a middle
\* rank, the top family, an unknown name and a family without its sub-tier.
\* Their scale positions 1, 12, 24 and 25 give sums of every residue modulo 5.
RankPool == {
    <<"ru_zh", "1">>,
    <<"G", "o", "l", "d", "-", "3">>,
    <<"I", "m", "m", "o", "r", "t", "a", "l", " ", "3">>,
    <<"R", "a", "d", "i", "a", "n", "t">>,
    <<"g", "a", "l", "a", "x", "y", "1">>,
    <<"d", "i", "a", "m", "o", "n", "d">>}

RECURSIVE Sum(_)
Sum(s) == IF s = <<>> THEN 0 ELSE Head(s) + Sum(Tail(s))

\* sum(values) / 5.0, in tenths.
Mean(vals) == 2 * Sum(vals)

\* Mutant: only an input that is too long is rejected.
WrongCountTooLong(rs) == Len(rs) > 5

\* Line 179: the guard of the wrong-count error.
WrongCount(rs) == Len(rs) # 5

\* Lines 189-192: the entry of norm_ru for one parsed token.
NormLabel(key, tier, ru_base) ==
    IF key = "radiant" THEN RU_NAME["radiant"] ELSE Label(ru_base, tier[1])

InitAgg ==
    /\ ranks \in {<<>>} \cup {Doctests[d] : d \in 1..Len(Doctests)}
    /\ include_radiant = DEFAULT_INCLUDE_RADIANT
    /\ entry = "" /\ pc = "input" /\ i = 0
    /\ values = <<>> /\ norm_ru = <<>> /\ avg_value = 0 /\ final_num = 0 /\ final_ru = ""
    /\ err = NoError /\ ret = <<>>
    /\ TokIdle /\ MapIdle

\* The caller collects one more text (main, lines 255 and 273-276).
AddRank(t) ==
    /\ pc = "input"
    /\ Len(ranks) < MaxRanks
    /\ ranks' = Append(ranks, t)
    /\ UNCHANGED <<entry, i, values, norm_ru, avg_value, final_num, final_ru, err, ret>>
    /\ UNCHANGED <<tokVars, mapVars, include_radiant, pc>>

\* Lines 179-184: entry of compute_average_details with the length check.
Enter(name, flag) ==
    /\ pc = "input"
    /\ entry' = name
    /\ include_radiant' = flag
    /\ IF WrongCount(ranks)
       THEN /\ err' = [kind |-> "WrongCount", raw |-> <<>>, family |-> ""]
            /\ pc' = "raised"
            /\ i' = 0
       ELSE /\ err' = err
            /\ pc' = "loop"
            /\ i' = 1
    /\ UNCHANGED <<ranks, values, norm_ru, avg_value, final_num, final_ru, ret>>
    /\ UNCHANGED <<tokVars, mapVars>>

CallComputeAverageDetails(flag) == Enter("compute_average_details", flag)

\* Line 212: average_rank passes DEFAULT_INCLUDE_RADIANT.
CallAverageRank == Enter("average_rank", DEFAULT_INCLUDE_RADIANT)

\* Mutant: a token that fails is skipped and the loop goes on.
ParseNextBestEffort ==
    /\ pc = "loop"
    /\ i <= Len(ranks)
    /\ LET r == parse_rank_token(ranks[i])
       IN  IF r.err # "none"
           THEN /\ err' = ErrorOf(r)
                /\ i' = i + 1
                /\ UNCHANGED <<pc, values, norm_ru>>
           ELSE /\ values' = Append(values, rank_to_number(r.key, r.tier, include_radiant))
                /\ norm_ru' = Append(norm_ru, NormLabel(r.key, r.tier, r.ru_base))
                /\ i' = i + 1
                /\ UNCHANGED <<err, pc>>
    /\ UNCHANGED <<ranks, entry, avg_value, final_num, final_ru, ret>>
    /\ UNCHANGED <<tokVars, mapVars, include_radiant>>

\* Lines 185-193: one iteration of the for loop.
ParseNext ==
    /\ pc = "loop"
    /\ i <= Len(ranks)
    /\ LET r == parse_rank_token(ranks[i])
       IN  IF r.err # "none"
           THEN /\ err' = ErrorOf(r)
                /\ pc' = "raised"
                /\ UNCHANGED <<i, values, norm_ru>>
           ELSE /\ values' = Append(values, rank_to_number(r.key, r.tier, include_radiant))
                /\ norm_ru' = Append(norm_ru, NormLabel(r.key, r.tier, r.ru_base))
                /\ i' = i + 1
                /\ UNCHANGED <<err, pc>>
    /\ UNCHANGED <<ranks, entry, avg_value, final_num, final_ru, ret>>
    /\ UNCHANGED <<tokVars, mapVars, include_radiant>>

\* Lines 195-198 and 212-213: the mean, the rounding, the label, the return.
Finish ==
    /\ pc = "loop"
    /\ i > Len(ranks)
    /\ avg_value' = Mean(values)
    /\ final_num' = round_half_up(avg_value')
    /\ final_ru' = number_to_ru(final_num', include_radiant)
    /\ ret' = IF entry = "average_rank"
              THEN <<final_ru'>>
              ELSE <<norm_ru, values, avg_value', final_ru'>>
    /\ pc' = "done"
    /\ UNCHANGED <<ranks, entry, i, values, norm_ru, err>>
    /\ UNCHANGED <<tokVars, mapVars, include_radiant>>

Next ==
    \/ \E t \in RankPool : AddRank(t)
    \/ \E flag \in BOOLEAN : CallComputeAverageDetails(flag)
    \/ CallAverageRank
    \/ ParseNext
    \/ Finish

Spec == InitAgg /\ [][Next]_vars

(***************************************************************************)
(* _rank_to_number and _number_to_ru called on one rank or one number,     *)
(* lines 142-165.                                                          *)
(***************************************************************************)
\* What _parse_rank_token can return: a family of ORDER with a sub-tier, or
\* the top family without one (lines 128-139).
StructuredRanks ==
    {[key |-> ORDER[k], tier |-> <<t>>] : k \in 1..Len(ORDER), t \in {1, 2, 3}}
        \cup {[key |-> "radiant", tier |-> None]}

InitMap ==
    /\ include_radiant \in BOOLEAN
    /\ \/ pc = "rank" /\ rank \in StructuredRanks /\ num = 0
       \/ pc = "number" /\ rank = NoRank /\ num \in (1 - Slack)..(RADIANT_VALUE + Slack)
    /\ label = ""
    /\ AggIdle /\ TokIdle

\* _rank_to_number(key, tier, include_radiant)
CallRankToNumber ==
    /\ pc = "rank"
    /\ num' = rank_to_number(rank.key, rank.tier, include_radiant)
    /\ pc' = "mapped"
    /\ UNCHANGED <<rank, label>>
    /\ UNCHANGED <<aggVars, tokVars, include_radiant>>

\* _number_to_ru(num, include_radiant), on the number of a rank or on an
\* arbitrary one.
CallNumberToRu ==
    /\ pc \in {"mapped", "number"}
    /\ label' = number_to_ru(num, include_radiant)
    /\ pc' = IF pc = "mapped" THEN "labelled" ELSE "clamped"
    /\ UNCHANGED <<rank, num>>
    /\ UNCHANGED <<aggVars, tokVars, include_radiant>>

NextMap ==
    \/ CallRankToNumber
    \/ CallNumberToRu

SpecMap == InitMap /\ [][NextMap]_vars

(***************************************************************************)
(* Properties of the scale mapping.                                        *)
(***************************************************************************)
Ordinary(r) == r.key # "radiant"

OrdinaryRanks == {r \in StructuredRanks : Ordinary(r)}

FamilyPos(r) == CHOOSE k \in 1..Len(ORDER) : ORDER[k] = r.key

\* r2 comes after r1 in Iron 1, Iron 2, ..., Immortal 3, top family.
Later(r1, r2) ==
    IF ~Ordinary(r2) THEN Ordinary(r1)
    ELSE /\ Ordinary(r1)
         /\ \/ FamilyPos(r2) > FamilyPos(r1)
            \/ FamilyPos(r2) = FamilyPos(r1) /\ r2.tier[1] > r1.tier[1]

\* The label compute_average_details puts into norm_ru for a rank.
DisplayLabel(r) == NormLabel(r.key, r.tier, RU_NAME[r.key])

\* C2 as stated: under either flag, the forward mapping followed by the
\* inverse mapping gives back the display label of every structured rank.
C2_Original ==
    pc = "labelled" => label = DisplayLabel(rank)

\* C2 as amended: the forward mapping followed by the inverse mapping gives
\* back the display label of every ordinary rank under either flag and of
\* the top family when the flag is true; when the flag is false the top
\* family comes back as the label of Immortal 3.
C2_RoundTrip ==
    pc = "labelled" =>
        IF ~Ordinary(rank) /\ ~include_radiant
        THEN label = DisplayLabel([key |-> "immortal", tier |-> <<3>>])
        ELSE label = DisplayLabel(rank)

\* C2 witness: an ordinary rank of sub-tier 3 went forth and back with the
\* flag false.
C2_Witness ==
    /\ pc = "labelled"
    /\ ~include_radiant
    /\ rank = [key |-> "gold", tier |-> <<3>>]
    /\ num = 12
    /\ label = "Zoloto 3"

\* The 24 ordinary ranks map onto 1..24, no value twice, none skipped.
OrdinaryOnto ==
    /\ Ordinary(rank) =>
           /\ num \in 1..24
           /\ \A r2 \in OrdinaryRanks :
                  r2 # rank => rank_to_number(r2.key, r2.tier, include_radiant) # num
    /\ \A n \in 1..24 :
           \E r2 \in OrdinaryRanks : rank_to_number(r2.key, r2.tier, include_radiant) = n

\* C3 as stated: under either flag a rank later in the order of the 25
\* structured ranks has a strictly larger scale position, and the ordinary
\* ranks map onto 1..24.
C3_Original ==
    pc = "mapped" =>
        /\ \A r2 \in StructuredRanks :
               Later(rank, r2) => rank_to_number(r2.key, r2.tier, include_radiant) > num
        /\ OrdinaryOnto

\* C3 as amended: the forward mapping is strictly increasing over the 25
\* structured ranks when the flag is true and over the 24 ordinary ranks
\* under either flag; when the flag is false the top family has position
\* 24, the position of Immortal 3, so the order is kept but not strictly.
\* The ordinary ranks map onto 1..24, no value twice, none skipped.
C3_Monotonic ==
    pc = "mapped" =>
        /\ \A r2 \in StructuredRanks :
               Later(rank, r2) =>
                   IF Ordinary(r2) \/ include_radiant
                   THEN rank_to_number(r2.key, r2.tier, include_radiant) > num
                   ELSE /\ rank_to_number(r2.key, r2.tier, include_radiant) = 24
                        /\ num <= 24
        /\ ~Ordinary(rank) => num = (IF include_radiant THEN 25 ELSE 24)
        /\ OrdinaryOnto

\* C3 witness: Immortal 3 was mapped with the flag true, the top family
\* lying strictly above it.
C3_Witness ==
    /\ pc = "mapped"
    /\ include_radiant
    /\ rank = [key |-> "immortal", tier |-> <<3>>]
    /\ num = 24

(***************************************************************************)
(* Properties of compute_average_details and average_rank.                 *)
(***************************************************************************)
\* The labels the docstring examples expect, lines 27, 29, 31 and 34.
DoctestExpected == <<"Zoloto 2", "Zoloto 2", "Almaz 2", "Immortal 1">>

\* The scale limit under a flag.
Ceiling(flag) == IF flag THEN 25 ELSE 24

\* The tokens of rs that do not parse.
Failing(rs) == {j \in 1..Len(rs) : parse_rank_token(rs[j]).err # "none"}

FirstFailing(rs) == CHOOSE j \in Failing(rs) : \A k \in Failing(rs) : j <= k

\* C1: when five tokens all parse, the final label is the inverse mapping of
\* floor((2*sum + 5) / 10), sum being the sum of the five scale positions:
\* the integer nearest to sum/5, a tie going up.  average_rank returns that
\* label computed with the flag true.  The docstring examples come out as
\* documented.
C1_RoundedMean ==
    pc = "done" =>
        LET s == Sum(values)
            n == (2 * s + 5) \div 10
        IN  /\ Len(values) = 5
            /\ \A j \in 1..5 :
                   LET r == parse_rank_token(ranks[j])
                   IN  values[j] = rank_to_number(r.key, r.tier, include_radiant)
            /\ final_num = n
            /\ 10 * final_num - 5 <= 2 * s
            /\ 2 * s < 10 * final_num + 5
            /\ final_ru = number_to_ru(n, include_radiant)
            /\ entry = "compute_average_details" => ret = <<norm_ru, values, 2 * s, final_ru>>
            /\ entry = "average_rank" => include_radiant /\ ret = <<number_to_ru(n, TRUE)>>
            /\ \A d \in 1..Len(Doctests) :
                   ranks = Doctests[d] /\ include_radiant => final_ru = DoctestExpected[d]

\* C1 witness: a call of average_rank returned after a mean with fraction .6
\* was rounded up.
C1_Witness ==
    /\ pc = "done"
    /\ entry = "average_rank"
    /\ (2 * Sum(values)) % 10 = 6
    /\ 5 * final_num > Sum(values)

C7_FirstErrorAborts ==
    (pc # "input" /\ Len(ranks) = 5 /\ Failing(ranks) # {}) =>
        LET f == FirstFailing(ranks)
        IN  /\ pc \in {"loop", "raised"}
            /\ ret = <<>>
            /\ i <= f
            /\ Len(values) = i - 1
            /\ pc = "raised" =>
                   /\ i = f
                   /\ err = ErrorOf(parse_rank_token(ranks[f]))

\* C7 witness: the call failed at a token that is not the first one while a
\* later token fails with a different error.
C7_Witness ==
    /\ pc = "raised"
    /\ Len(ranks) = 5
    /\ i >= 2
    /\ \E k \in Failing(ranks) : k > i /\ parse_rank_token(ranks[k]).err # err.kind

\* C10: every scale value of a successful call lies in [1, ceiling], so does
\* the rounded mean, and the clamp of _number_to_ru leaves it as it is.
C10_WithinScale ==
    /\ pc \in {"loop", "done"} =>
           \A j \in 1..Len(values) : 1 <= values[j] /\ values[j] <= Ceiling(include_radiant)
    /\ pc = "done" =>
           /\ 1 <= final_num
           /\ final_num <= Ceiling(include_radiant)
           /\ Clamp(final_num, include_radiant) = final_num

\* C10 witness: with the top family excluded, a call on five top-family
\* tokens returned the rounded mean 24.
C10_Witness ==
    /\ pc = "done"
    /\ ~include_radiant
    /\ final_num = 24
    /\ \A j \in 1..5 : parse_rank_token(ranks[j]).key = "radiant"

(***************************************************************************)
(* _clean_token and _parse_rank_token called on one text, lines 80-139.    *)
(***************************************************************************)
\* The characters of the arbitrary texts: every separator, a newline, an
\* upper-case and a lower-case one-letter alias of an ordinary family, a
\* one-letter alias of the top family, a sub-tier digit and a digit that is
\* not a sub-tier.
Alphabet == {" ", "\t", "\n", "-", "_", ".", "RU_D", "ru_i", "r", "1", "4"}

Texts == UNION {[1..n -> Alphabet] : n \in 0..MaxLen}

OrdinaryAliases == UNION {ALIASES[ORDER[k]] : k \in 1..Len(ORDER)}

\* An alias written canonically: lower case, no separator, the sub-tier
\* digit right after an ordinary family, no digit after the top family.
CanonicalTokens ==
    {a \o <<d>> : a \in OrdinaryAliases, d \in TierClass} \cup ALIASES["radiant"]

\* The separators a user may type into a token (module docstring, line 9,
\* and the docstring of _clean_token).
TypedSeparators == {" ", "-", "_", "."}

InitTok ==
    /\ raw \in Texts \cup CanonicalTokens \cup RankPool
    /\ origin = raw
    /\ edits = 0
    /\ token = <<>>
    /\ result = NoResult
    /\ pc = "text"
    /\ include_radiant = DEFAULT_INCLUDE_RADIANT
    /\ AggIdle /\ MapIdle

\* The user types a separator somewhere into a canonical token.
InsertSeparator(p, c) ==
    /\ pc = "text"
    /\ origin \in CanonicalTokens
    /\ edits < MaxEdits
    /\ p \in 0..Len(raw)
    /\ raw' = SubSeq(raw, 1, p) \o <<c>> \o SubSeq(raw, p + 1, Len(raw))
    /\ edits' = edits + 1
    /\ UNCHANGED <<origin, token, result>>
    /\ UNCHANGED <<aggVars, mapVars, include_radiant, pc>>

\* The user types one letter of a canonical token in the other case.
SwapCase(p) ==
    /\ pc = "text"
    /\ origin \in CanonicalTokens
    /\ edits < MaxEdits
    /\ p \in 1..Len(raw)
    /\ LET c == raw[p]
           other == IF LowerChar(c) # c THEN LowerChar(c) ELSE UpperChar(c)
       IN  /\ other # c
           /\ raw' = [raw EXCEPT ![p] = other]
    /\ edits' = edits + 1
    /\ UNCHANGED <<origin, token, result>>
    /\ UNCHANGED <<aggVars, mapVars, include_radiant, pc>>

\* _clean_token(raw), lines 84-86.
CallCleanToken ==
    /\ pc = "text"
    /\ token' = clean_token(raw)
    /\ pc' = "cleaned"
    /\ UNCHANGED <<raw, origin, edits, result>>
    /\ UNCHANGED <<aggVars, mapVars, include_radiant>>

\* _parse_rank_token(raw), lines 112-139.
CallParseRankToken ==
    /\ pc = "text"
    /\ token' = clean_token(raw)
    /\ result' = parse_rank_token(raw)
    /\ pc' = "parsed"
    /\ UNCHANGED <<raw, origin, edits>>
    /\ UNCHANGED <<aggVars, mapVars, include_radiant>>

\* Arbitrary texts, cleaned or parsed.
NextTok ==
    \/ CallCleanToken
    \/ CallParseRankToken

SpecTok == InitTok /\ [][NextTok]_vars

\* Canonical tokens, rewritten by the user and then parsed.
InitAlias ==
    /\ raw \in CanonicalTokens
    /\ origin = raw
    /\ edits = 0
    /\ token = <<>>
    /\ result = NoResult
    /\ pc = "text"
    /\ include_radiant = DEFAULT_INCLUDE_RADIANT
    /\ AggIdle /\ MapIdle

NextAlias ==
    \/ \E p \in 0..Len(raw), c \in TypedSeparators : InsertSeparator(p, c)
    \/ \E p \in 1..Len(raw) : SwapCase(p)
    \/ CallParseRankToken

SpecAlias == InitAlias /\ [][NextAlias]_vars

(***************************************************************************)
(* Properties of _clean_token and _parse_rank_token.                       *)
(***************************************************************************)
\* The characters the claim about the normalizer rules out.
Forbidden == Whitespace \cup {"-", "_", "."}

HasNoneOf(s, chars) == \A k \in 1..Len(s) : s[k] \notin chars

\* The family whose alias list holds a.
FamilyOf(a) == CHOOSE k \in {ALIAS_KEYS[j] : j \in 1..Len(ALIAS_KEYS)} : a \in ALIASES[k]

\* C4 as stated: the output of _clean_token holds no whitespace of any kind
\* (tab and newline included), no hyphen, no underscore and no period, and
\* cleaning it again returns it unchanged.
C4_Original ==
    pc = "cleaned" =>
        /\ HasNoneOf(token, Forbidden)
        /\ clean_token(token) = token

\* C4 as amended: the output of _clean_token holds no space, no tab, no
\* hyphen, no underscore and no period; whitespace other than space and tab
\* (a newline) is removed at the two ends of the input only and survives
\* elsewhere.  An output that holds no such whitespace is returned unchanged
\* when cleaned again.
C4_NoSeparators ==
    pc = "cleaned" =>
        /\ HasNoneOf(token, {" ", "\t", "-", "_", "."})
        /\ HasNoneOf(token, Whitespace) => clean_token(token) = token
        /\ \A k \in 1..Len(token) :
               token[k] = "\n" => \E j \in 2..(Len(raw) - 1) : raw[j] = "\n"

\* C4 witness: a text with a tab, an underscore and an upper-case letter was
\* cleaned down to the letter alone.
C4_Witness ==
    /\ pc = "cleaned"
    /\ \E k \in 1..Len(raw) : raw[k] = "\t"
    /\ \E k \in 1..Len(raw) : raw[k] = "_"
    /\ token = <<"ru_d">>

\* C5: a registered alias followed by its sub-tier digit (a top-family alias
\* without one), rewritten with letters in the other case and separators
\* typed anywhere, parses to the family and sub-tier of the canonical token.
C5_AliasInsensitive ==
    (pc = "parsed" /\ origin \in CanonicalTokens) =>
        /\ result.err = "none"
        /\ IF origin \in ALIASES["radiant"]
           THEN result.key = "radiant" /\ result.tier = None
           ELSE LET a == SubSeq(origin, 1, Len(origin) - 1)
                    d == origin[Len(origin)]
                IN  /\ result.key = FamilyOf(a)
                    /\ result.tier = <<DigitValue(d)>>
        /\ result.ru_base = RU_NAME[result.key]

\* C5 witness: an ordinary alias with an upper-case letter and an underscore
\* typed into it was parsed.
C5_Witness ==
    /\ pc = "parsed"
    /\ origin \in CanonicalTokens
    /\ origin \notin ALIASES["radiant"]
    /\ edits = 2
    /\ \E k \in 1..Len(raw) : raw[k] = "_"
    /\ \E k \in 1..Len(raw) : raw[k] \in UpperLetters
    /\ result.err = "none"

\* C8: the missing-sub-tier error, naming the family, is raised exactly when
\* the cleaned token does not end in 1, 2 or 3 and is as a whole an alias of
\* an ordinary family; a token whose core (the cleaned token without one
\* trailing 1, 2 or 3) is in no alias list gets the unrecognized-rank error.
C8_MissingSubTier ==
    pc = "parsed" =>
        LET noDigit == token = <<>> \/ token[Len(token)] \notin {"1", "2", "3"}
            core == IF noDigit THEN token ELSE SubSeq(token, 1, Len(token) - 1)
            known == \E j \in 1..Len(ALIAS_KEYS) : core \in ALIASES[ALIAS_KEYS[j]]
        IN  /\ result.err = "MissingSubTier" <=> (noDigit /\ token \in OrdinaryAliases)
            /\ result.err = "MissingSubTier" => result.family = RU_NAME[FamilyOf(token)]
            /\ ~known => (result.err = "UnrecognizedRank" /\ result.raw = raw)

\* C8 witness: an ordinary alias typed without a digit was refused for its
\* missing sub-tier.
C8_Witness ==
    /\ pc = "parsed"
    /\ raw = <<"d", "i", "a", "m", "o", "n", "d">>
    /\ result.err = "MissingSubTier"
    /\ result.family = "Almaz"

\* C9: _parse_rank_token never raises the invalid-sub-tier error; an
\* ordinary alias followed by a digit other than 1, 2, 3 is unrecognized.
C9_InvalidUnreachable ==
    pc = "parsed" =>
        /\ result.err \in {"none", "UnrecognizedRank", "MissingSubTier"}
        /\ (/\ Len(token) >= 2
            /\ SubSeq(token, 1, Len(token) - 1) \in OrdinaryAliases
            /\ token[Len(token)] \in {"0", "4", "5", "6", "7", "8", "9"})
           => result.err = "UnrecognizedRank"

\* C9 witness: a one-letter ordinary alias followed by 4 was parsed.
C9_Witness ==
    /\ pc = "parsed"
    /\ token = <<"ru_d", "4">>
    /\ result.err = "UnrecognizedRank"

====
